---------------------------- MODULE Spec2Model ----------------------------
(***************************************************************************)
(* A model of src/code_analyzer.py (class CodeAnalyzer): the line-check    *)
(* battery, the syntax-tree checks, the naming classifiers, the analysis   *)
(* driver and the report.                                                  *)
(*                                                                         *)
(* Python strings are sequences of one-character strings, so that          *)
(* matching, trimming, splitting, comparing and formatting are computed.   *)
(* The regular expressions of the source are kept as expression trees and  *)
(* matched by Ends, a set-of-positions matcher.                            *)
(***************************************************************************)
EXTENDS Naturals, Sequences, FiniteSets, Bags, TLC

VARIABLES
    files,        \* self.files: the paths to analyze, in order
    idx,          \* how many elements of self.files the loop of analyze has taken
    file,         \* self.file
    lines,        \* self.lines
    tree,         \* self.tree
    pos,          \* how many elements of self.lines the loop of analyze_lines has taken
    line_num,     \* self.line_num
    line,         \* self.line
    chk,          \* the positions of self.line_checks already run on the current line
    walked,       \* whether analyze_tree has run on the current file
    issues,       \* self.issues
    pc,           \* where the run is: "load", "lines", "done", "printed", "aborted"
    out           \* what main() has printed (NoReport before that)

vars == <<files, idx, file, lines, tree, pos, line_num, line, chk, walked, issues, pc, out>>

----------------------------------------------------------------------------
(* Characters *)

Upper == {"A","B","C","D","E","F","G","H","I","J","K","L","M",
          "N","O","P","Q","R","S","T","U","V","W","X","Y","Z"}
Lower == {"a","b","c","d","e","f","g","h","i","j","k","l","m",
          "n","o","p","q","r","s","t","u","v","w","x","y","z"}
Digit == {"0","1","2","3","4","5","6","7","8","9"}
Space == {" ", "\t", "\n", "\r", "\f"}

\* The printable ASCII characters in code point order, from 32.  The grave
\* accent (code point 96) cannot be written in a string literal of this
\* language; "grave" holds its place and is equal to no character.
Ascii ==
    <<" ","!","\"","#","$","%","&","'","(",")","*","+",",","-",".","/",
      "0","1","2","3","4","5","6","7","8","9",":",";","<","=",">","?",
      "@","A","B","C","D","E","F","G","H","I","J","K","L","M","N","O",
      "P","Q","R","S","T","U","V","W","X","Y","Z","[","\\","]","^","_",
      "grave","a","b","c","d","e","f","g","h","i","j","k","l","m","n","o",
      "p","q","r","s","t","u","v","w","x","y","z","{","|","}","~">>

\* ord(c)
Ord(c) ==
    CASE c = "\t" -> 9
      [] c = "\n" -> 10
      [] c = "\f" -> 12
      [] c = "\r" -> 13
      [] OTHER -> 31 + (CHOOSE i \in 1..Len(Ascii) : Ascii[i] = c)

\* c.lower() on ASCII
ToLower(c) == IF c \in Upper THEN Ascii[(Ord(c) - 31) + 32] ELSE c

\* Membership in a character class of the regular expressions.
InClass(cls, c) ==
    CASE cls[1] = "lit"  -> c = cls[2]                        \* a literal character
      [] cls[1] = "ilit" -> ToLower(c) = ToLower(cls[2])      \* a literal under re.IGNORECASE
      [] cls[1] = "not"  -> c # cls[2]                        \* [^c]
      [] cls[1] = "dot"  -> c # "\n"                          \* .
      [] cls[1] = "s"    -> c \in Space                       \* \s
      [] cls[1] = "S"    -> c \notin Space                    \* \S
      [] cls[1] = "w"    -> c \in Upper \cup Lower \cup Digit \cup {"_"}   \* \w
      [] cls[1] = "Lu"   -> c \in Upper                       \* \p{lu}
      [] cls[1] = "notLu" -> c \notin Upper                   \* \P{lu}

----------------------------------------------------------------------------
(* Python string operations *)

Max(S) == CHOOSE x \in S : \A y \in S : y <= x
Min(S) == CHOOSE x \in S : \A y \in S : x <= y

\* s.rstrip(): up to the last character that is not whitespace
RStrip(s) ==
    LET keep == {i \in 1..Len(s) : s[i] \notin Space}
    IN IF keep = {} THEN <<>> ELSE SubSeq(s, 1, Max(keep))

\* s.lstrip(): from the first character that is not whitespace
LStrip(s) ==
    LET keep == {i \in 1..Len(s) : s[i] \notin Space}
    IN IF keep = {} THEN <<>> ELSE SubSeq(s, Min(keep), Len(s))

\* s.strip()
Strip(s) == LStrip(RStrip(s))

\* s.split('\n'): the pieces between the newlines, always at least one
Split(s) ==
    LET nls == {i \in 1..Len(s) : s[i] = "\n"}
        \* the k-th cut: 0, then the newlines in order, then Len(s) + 1
        cut(k) == IF k = 0 THEN 0
                  ELSE IF k = Cardinality(nls) + 1 THEN Len(s) + 1
                  ELSE CHOOSE i \in nls : Cardinality({j \in nls : j < i}) = k - 1
    IN [k \in 1..(Cardinality(nls) + 1) |-> SubSeq(s, cut(k - 1) + 1, cut(k) - 1)]

\* sep.join(parts)
RECURSIVE Join(_, _)
Join(sep, parts) ==
    IF parts = <<>> THEN <<>>
    ELSE IF Len(parts) = 1 THEN parts[1]
    ELSE parts[1] \o sep \o Join(sep, Tail(parts))

\* str(n) for n >= 0
RECURSIVE IntStr(_)
IntStr(n) ==
    IF n < 10 THEN <<Ascii[17 + n]>> ELSE IntStr(n \div 10) \o <<Ascii[17 + (n % 10)]>>

\* a < b on strings: by code points at the first difference, a proper prefix first
StrLess(a, b) ==
    LET m == IF Len(a) < Len(b) THEN Len(a) ELSE Len(b)
        diff == {i \in 1..m : a[i] # b[i]}
    IN IF diff = {} THEN Len(a) < Len(b)
       ELSE Ord(a[Min(diff)]) < Ord(b[Min(diff)])

----------------------------------------------------------------------------
(* Regular expressions: re.match(r, s) anchors at the start of s only.      *)
(* Ends(r, s, i) is the set of positions j such that r matches s[i..j-1].   *)

Chr(cls)  == <<"chr", cls>>
Cat(rs)   == <<"cat", rs>>
Alt(a, b) == <<"alt", a, b>>
Star(cls) == <<"star", cls>>     \* c* for a character class c
Opt(r)    == <<"opt", r>>
Bol       == <<"bol">>
Eol       == <<"eol">>
Lit(str)  == Cat([i \in 1..Len(str) |-> Chr(<<"lit", str[i]>>)])
ILit(str) == Cat([i \in 1..Len(str) |-> Chr(<<"ilit", str[i]>>)])

\* The positions a run of characters of class cls from i can end at: i itself,
\* and every position up to the first character that is not in the class.
StarEnds(cls, s, i) ==
    LET stop == {j \in i..Len(s) : ~InClass(cls, s[j])}
    IN i..(IF stop = {} THEN Len(s) + 1 ELSE Min(stop))

RECURSIVE Ends(_, _, _), CatEnds(_, _, _)
Ends(r, s, i) ==
    CASE r[1] = "chr"  -> IF i <= Len(s) /\ InClass(r[2], s[i]) THEN {i + 1} ELSE {}
      [] r[1] = "cat"  -> CatEnds(r[2], s, {i})
      [] r[1] = "alt"  -> Ends(r[2], s, i) \cup Ends(r[3], s, i)
      [] r[1] = "star" -> StarEnds(r[2], s, i)
      [] r[1] = "opt"  -> {i} \cup Ends(r[2], s, i)
      [] r[1] = "bol"  -> IF i = 1 THEN {i} ELSE {}
      [] r[1] = "eol"  -> IF i = Len(s) + 1 \/ (i = Len(s) /\ s[i] = "\n") THEN {i} ELSE {}

CatEnds(rs, s, from) ==
    IF rs = <<>> \/ from = {} THEN from
    ELSE CatEnds(Tail(rs), s, UNION {Ends(rs[1], s, j) : j \in from})

\* re.match(r, s) is not None
Matches(r, s) == Ends(r, s, 1) # {}

\* re.match(r, s).end() for a greedy pattern whose longest match is its first
MatchEnd(r, s) == Max(Ends(r, s, 1)) - 1

----------------------------------------------------------------------------
(* Issues *)

\* self.issue_template(file=..., line_num=..., code=..., message=...)
Issue(f, n, code, message) == [file |-> f, line_num |-> n, code |-> code, message |-> message]

\* issue_append inserting at the front: self.issues.insert(0, ...)
issue_appendFront(iss, f, n, code, message) == <<Issue(f, n, code, message)>> \o iss

\* issue_append keeping one issue per line: nothing is appended when the last
\* issue is on the same line of the same file
issue_appendOncePerLine(iss, f, n, code, message) ==
    IF iss # <<>> /\ iss[Len(iss)].file = f /\ iss[Len(iss)].line_num = n
    THEN iss
    ELSE Append(iss, Issue(f, n, code, message))

\* issue_append: the issue is built from self.file and appended to self.issues
issue_append(iss, f, n, code, message) == Append(iss, Issue(f, n, code, message))

S001 == <<"S","0","0","1">>
S002 == <<"S","0","0","2">>
S003 == <<"S","0","0","3">>
S004 == <<"S","0","0","4">>
S005 == <<"S","0","0","5">>
S006 == <<"S","0","0","6">>
S007 == <<"S","0","0","7">>
S008 == <<"S","0","0","8">>
S009 == <<"S","0","0","9">>
S010 == <<"S","0","1","0">>
S011 == <<"S","0","1","1">>
S012 == <<"S","0","1","2">>

\* 'Too long'
MsgTooLong == <<"T","o","o"," ","l","o","n","g">>
\* 'Indentation is not a multiple of 4'
MsgIndent == <<"I","n","d","e","n","t","a","t","i","o","n"," ","i","s"," ","n","o","t"," ",
               "a"," ","m","u","l","t","i","p","l","e"," ","o","f"," ","4">>
\* 'Unnecessary semicolon'
MsgSemicolon == <<"U","n","n","e","c","e","s","s","a","r","y"," ","s","e","m","i","c","o","l","o","n">>
\* 'At least two spaces required before inline comments'
MsgInline == <<"A","t"," ","l","e","a","s","t"," ","t","w","o"," ","s","p","a","c","e","s"," ",
               "r","e","q","u","i","r","e","d"," ","b","e","f","o","r","e"," ",
               "i","n","l","i","n","e"," ","c","o","m","m","e","n","t","s">>
\* 'TODO found'
MsgTodo == <<"T","O","D","O"," ","f","o","u","n","d">>
\* 'More than two blank lines used before this line'
MsgBlank == <<"M","o","r","e"," ","t","h","a","n"," ","t","w","o"," ","b","l","a","n","k"," ",
              "l","i","n","e","s"," ","u","s","e","d"," ","b","e","f","o","r","e"," ",
              "t","h","i","s"," ","l","i","n","e">>
\* "Too many spaces after '{name}'"
MsgSpaces(name) == <<"T","o","o"," ","m","a","n","y"," ","s","p","a","c","e","s"," ",
                     "a","f","t","e","r"," ","'">> \o name \o <<"'">>
\* f"Class name '{node.name}' should use CamelCase"
MsgClass(name) == <<"C","l","a","s","s"," ","n","a","m","e"," ","'">> \o name \o
                  <<"'"," ","s","h","o","u","l","d"," ","u","s","e"," ","C","a","m","e","l","C","a","s","e">>
\* "' should use snake_case"
SnakeTail == <<"'"," ","s","h","o","u","l","d"," ","u","s","e"," ","s","n","a","k","e","_","c","a","s","e">>
\* f"Function name '{node.name}' should use snake_case"
MsgFunction(name) == <<"F","u","n","c","t","i","o","n"," ","n","a","m","e"," ","'">> \o name \o SnakeTail
\* f"Argument name '{arg_name}' should use snake_case"
MsgArgument(name) == <<"A","r","g","u","m","e","n","t"," ","n","a","m","e"," ","'">> \o name \o SnakeTail
\* f"Variable name '{var_name}' in function should use snake_case"
MsgVariable(name) == <<"V","a","r","i","a","b","l","e"," ","n","a","m","e"," ","'">> \o name \o
                     <<"'"," ","i","n"," ","f","u","n","c","t","i","o","n"," ","s","h","o","u","l","d"," ",
                       "u","s","e"," ","s","n","a","k","e","_","c","a","s","e">>
\* "Default argument value is mutable"
MsgMutable == <<"D","e","f","a","u","l","t"," ","a","r","g","u","m","e","n","t"," ",
                "v","a","l","u","e"," ","i","s"," ","m","u","t","a","b","l","e">>

----------------------------------------------------------------------------
(* The line checks.  Each takes the accumulator and returns it, with the    *)
(* issue appended if the check fires.                                      *)

MaxLineLength == 79
IndentUnit == 4
BlankLookback == 3

KwClass == <<"c","l","a","s","s">>
KwDef   == <<"d","e","f">>

\* r'\s*'
ReIndent == Star(<<"s">>)
\* r'^[^#]*;\s*(#.*)?$'
ReSemicolon == Cat(<<Bol, Star(<<"not", "#">>), Chr(<<"lit", ";">>), Star(<<"s">>),
                     Opt(Cat(<<Chr(<<"lit", "#">>), Star(<<"dot">>)>>)), Eol>>)
\* r'^[^#]*\S ?#'
ReInline == Cat(<<Bol, Star(<<"not", "#">>), Chr(<<"S">>), Opt(Chr(<<"lit", " ">>)),
                  Chr(<<"lit", "#">>)>>)
\* r'^[^#]*#.*todo' with re.IGNORECASE
ReTodo == Cat(<<Bol, Star(<<"not", "#">>), Chr(<<"lit", "#">>), Star(<<"dot">>),
                ILit(<<"t","o","d","o">>)>>)
\* r'^\s*(class|def)\s{2,}', for one keyword of the group
ReSpaceAfter(kw) == Cat(<<Bol, Star(<<"s">>), Lit(kw),
                          Chr(<<"s">>), Chr(<<"s">>), Star(<<"s">>)>>)
\* r'\w*\p{lu}\w*'
ReNotSnake == Cat(<<Star(<<"w">>), Chr(<<"Lu">>), Star(<<"w">>)>>)
\* ReNotCamel without its second alternative: r'\P{lu}\w*'
ReNotCamelFirstOnly == Cat(<<Chr(<<"notLu">>), Star(<<"w">>)>>)

\* r'\P{lu}\w*|\w*_\w*'
ReNotCamel == Alt(Cat(<<Chr(<<"notLu">>), Star(<<"w">>)>>),
                  Cat(<<Star(<<"w">>), Chr(<<"lit", "_">>), Star(<<"w">>)>>))

check_length(iss, f, ls, n, l) ==
    IF Len(l) > MaxLineLength THEN issue_append(iss, f, n, S001, MsgTooLong) ELSE iss

check_indent(iss, f, ls, n, l) ==
    IF MatchEnd(ReIndent, l) % IndentUnit # 0 THEN issue_append(iss, f, n, S002, MsgIndent) ELSE iss

check_semicolon(iss, f, ls, n, l) ==
    IF Matches(ReSemicolon, l) THEN issue_append(iss, f, n, S003, MsgSemicolon) ELSE iss

check_inline(iss, f, ls, n, l) ==
    IF Matches(ReInline, l) THEN issue_append(iss, f, n, S004, MsgInline) ELSE iss

check_todo(iss, f, ls, n, l) ==
    IF Matches(ReTodo, l) THEN issue_append(iss, f, n, S005, MsgTodo) ELSE iss

\* check_blank_lines looking back two lines: self.lines[line_index - 2: line_index]
check_blank_linesTwo(iss, f, ls, n, l) ==
    LET line_index == n - 1
    IN IF /\ line_index >= BlankLookback
          /\ Strip(ls[line_index + 1]) # <<>>
          /\ Strip(Join(<<>>, SubSeq(ls, line_index - 1, line_index))) = <<>>
       THEN issue_append(iss, f, n, S006, MsgBlank)
       ELSE iss

\* line_index = n - 1; Python's self.lines[line_index - 3: line_index] are the
\* elements n-3 .. n-1 here (1-based); ''.join(...) concatenates them.
check_blank_lines(iss, f, ls, n, l) ==
    LET line_index == n - 1
    IN IF /\ line_index >= BlankLookback
          /\ Strip(ls[line_index + 1]) # <<>>
          /\ Strip(Join(<<>>, SubSeq(ls, line_index + 1 - BlankLookback, line_index))) = <<>>
       THEN issue_append(iss, f, n, S006, MsgBlank)
       ELSE iss

check_space_class_def(iss, f, ls, n, l) ==
    IF Matches(ReSpaceAfter(KwClass), l) THEN issue_append(iss, f, n, S007, MsgSpaces(KwClass))
    ELSE IF Matches(ReSpaceAfter(KwDef), l) THEN issue_append(iss, f, n, S007, MsgSpaces(KwDef))
    ELSE iss

\* self.line_checks, and the call of its k-th element
line_checks == <<"check_length", "check_indent", "check_semicolon", "check_inline",
                 "check_todo", "check_blank_lines", "check_space_class_def">>

RunCheck(k, iss, f, ls, n, l) ==
    CASE line_checks[k] = "check_length"          -> check_length(iss, f, ls, n, l)
      [] line_checks[k] = "check_indent"          -> check_indent(iss, f, ls, n, l)
      [] line_checks[k] = "check_semicolon"       -> check_semicolon(iss, f, ls, n, l)
      [] line_checks[k] = "check_inline"          -> check_inline(iss, f, ls, n, l)
      [] line_checks[k] = "check_todo"            -> check_todo(iss, f, ls, n, l)
      [] line_checks[k] = "check_blank_lines"     -> check_blank_lines(iss, f, ls, n, l)
      [] line_checks[k] = "check_space_class_def" -> check_space_class_def(iss, f, ls, n, l)

\* analyze_lines as a function: every line in turn, every check in the order declared
RECURSIVE run_checks(_, _, _, _, _)
run_checks(iss, f, ls, n, k) ==
    IF k > Len(line_checks) THEN iss
    ELSE run_checks(RunCheck(k, iss, f, ls, n, ls[n]), f, ls, n, k + 1)

RECURSIVE analyze_lines_from(_, _, _, _)
analyze_lines_from(iss, f, ls, n) ==
    IF n > Len(ls) THEN iss
    ELSE analyze_lines_from(run_checks(iss, f, ls, n, 1), f, ls, n + 1)

analyze_lines(iss, f, ls) == analyze_lines_from(iss, f, ls, 1)

\* is_not_snake(name), is_not_camel(name)
is_not_snake(name) == Matches(ReNotSnake, name)
is_not_camel(name) == Matches(ReNotCamel, name)

----------------------------------------------------------------------------
(* The syntax tree.  A tree is the table of its nodes below the Module;     *)
(* node i names its parent (0: the Module) and parents come first.  Only    *)
(* what analyze_tree reads is kept: the node's class, lineno, name (id for  *)
(* a Name), ctx, args.args (the names) and args.defaults (the classes of    *)
(* the default expressions).                                               *)

Node(type, parent, lineno, name, ctx, args, defaults) ==
    [type |-> type, parent |-> parent, lineno |-> lineno, name |-> name,
     ctx |-> ctx, args |-> args, defaults |-> defaults]

ClassDef(parent, lineno, name) == Node("ClassDef", parent, lineno, name, "", <<>>, <<>>)
FunctionDef(parent, lineno, name, args, defaults) ==
    Node("FunctionDef", parent, lineno, name, "", args, defaults)
Name(parent, lineno, id, ctx) == Node("Name", parent, lineno, id, ctx, <<>>, <<>>)
Stmt(type, parent, lineno) == Node(type, parent, lineno, <<>>, "", <<>>, <<>>)

\* ast.iter_child_nodes(node), in field order
Children(t, i) ==
    LET kids == {j \in 1..Len(t) : t[j].parent = i}
        RECURSIVE Asc(_, _)
        Asc(from, S) == IF S = {} THEN <<>>
                        ELSE IF from \in S THEN <<from>> \o Asc(from + 1, S \ {from})
                        ELSE Asc(from + 1, S)
    IN Asc(1, kids)

\* ast.walk(node): breadth first, the node itself first
RECURSIVE WalkFrom(_, _)
WalkFrom(t, todo) ==
    IF todo = <<>> THEN <<>>
    ELSE <<Head(todo)>> \o WalkFrom(t, Tail(todo) \o Children(t, Head(todo)))

Walk(t, root) == WalkFrom(t, <<root>>)

MutableDefaults == {"List", "Set", "Dict"}

\* lines 137-141: one S010 per offending positional argument, at the function's line
RECURSIVE check_args(_, _, _, _)
check_args(iss, f, node, args) ==
    IF args = <<>> THEN iss
    ELSE check_args(IF is_not_snake(Head(args))
                    THEN issue_append(iss, f, node.lineno, S010, MsgArgument(Head(args)))
                    ELSE iss,
                    f, node, Tail(args))

\* lines 144-149: one S011 per offending Name in Store context among the nodes walked
RECURSIVE check_variables(_, _, _, _)
check_variables(iss, f, t, inner) ==
    IF inner = <<>> THEN iss
    ELSE LET n == Head(inner)
         IN check_variables(IF /\ n # 0
                               /\ t[n].type = "Name"
                               /\ t[n].ctx = "Store"
                               /\ is_not_snake(t[n].name)
                            THEN issue_append(iss, f, t[n].lineno, S011, MsgVariable(t[n].name))
                            ELSE iss,
                            f, t, Tail(inner))

\* check_defaults without the break: one S012 per mutable default
RECURSIVE check_defaultsNoBreak(_, _, _, _)
check_defaultsNoBreak(iss, f, node, defaults) ==
    IF defaults = <<>> THEN iss
    ELSE check_defaultsNoBreak(IF Head(defaults) \in MutableDefaults
                               THEN issue_append(iss, f, node.lineno, S012, MsgMutable)
                               ELSE iss,
                               f, node, Tail(defaults))

\* lines 152-156: S012 at the first mutable default, then break
RECURSIVE check_defaults(_, _, _, _)
check_defaults(iss, f, node, defaults) ==
    IF defaults = <<>> THEN iss
    ELSE IF Head(defaults) \in MutableDefaults
         THEN issue_append(iss, f, node.lineno, S012, MsgMutable)
         ELSE check_defaults(iss, f, node, Tail(defaults))

\* lines 123-156: the body of the loop of analyze_tree for one node
visit(iss, f, t, n) ==
    IF n = 0 THEN iss                       \* the Module
    ELSE IF t[n].type = "ClassDef"
         THEN IF is_not_camel(t[n].name)
              THEN issue_append(iss, f, t[n].lineno, S008, MsgClass(t[n].name))
              ELSE iss
    ELSE IF t[n].type = "FunctionDef"
         THEN LET i1 == IF is_not_snake(t[n].name)
                        THEN issue_append(iss, f, t[n].lineno, S009, MsgFunction(t[n].name))
                        ELSE iss
                  i2 == check_args(i1, f, t[n], t[n].args)
                  i3 == check_variables(i2, f, t, Walk(t, n))
              IN check_defaults(i3, f, t[n], t[n].defaults)
    ELSE iss

RECURSIVE visit_all(_, _, _, _)
visit_all(iss, f, t, nodes) ==
    IF nodes = <<>> THEN iss
    ELSE visit_all(visit(iss, f, t, Head(nodes)), f, t, Tail(nodes))

\* analyze_tree: for node in ast.walk(self.tree)
analyze_tree(iss, f, t) == visit_all(iss, f, t, Walk(t, 0))

----------------------------------------------------------------------------
(* The report *)

\* IssueLess with the fields taken in the order (line_num, file, code, message)
IssueLessLineFirst(a, b) ==
    IF a.line_num # b.line_num THEN a.line_num < b.line_num
    ELSE IF a.file # b.file THEN StrLess(a.file, b.file)
    ELSE IF a.code # b.code THEN StrLess(a.code, b.code)
    ELSE StrLess(a.message, b.message)

\* The order of the Issue namedtuple: that of the tuple (file, line_num, code, message)
IssueLess(a, b) ==
    IF a.file # b.file THEN StrLess(a.file, b.file)
    ELSE IF a.line_num # b.line_num THEN a.line_num < b.line_num
    ELSE IF a.code # b.code THEN StrLess(a.code, b.code)
    ELSE StrLess(a.message, b.message)

\* sorted(seq): stable, ascending
RECURSIVE Insert(_, _)
Insert(x, sorted) ==
    IF sorted = <<>> THEN <<x>>
    ELSE IF IssueLess(x, Head(sorted)) THEN <<x>> \o sorted
    ELSE <<Head(sorted)>> \o Insert(x, Tail(sorted))

RECURSIVE Sorted(_)
Sorted(seq) ==
    IF seq = <<>> THEN <<>> ELSE Insert(seq[Len(seq)], Sorted(SubSeq(seq, 1, Len(seq) - 1)))

\* f'{issue.file}: Line {issue.line_num}: {issue.code} {issue.message}'
Render(issue) ==
    issue.file \o <<":"," ","L","i","n","e"," ">> \o IntStr(issue.line_num) \o <<":"," ">>
        \o issue.code \o <<" ">> \o issue.message

\* CodeAnalyzer.__str__
__str__(iss) == LET sorted == Sorted(iss)
            IN Join(<<"\n">>, [i \in 1..Len(sorted) |-> Render(sorted[i])])

----------------------------------------------------------------------------
(* The files of a run.  What open(self.file).read() and ast.parse(source)   *)
(* return is input: LoadFile draws the text from DriverSources and the      *)
(* parse from Parse(source).                                               *)

PathA == <<"a",".","p","y">>
PathB == <<"b",".","p","y">>
PathC == <<"c",".","p","y">>
Paths == {PathA, PathB, PathC}

\* What load_dir returns: one path, or the paths found, sorted
FileLists == {<<p>> : p \in Paths} \cup
             {pq \in Paths \X Paths : StrLess(pq[1], pq[2])} \cup
             {pqr \in Paths \X Paths \X Paths : StrLess(pqr[1], pqr[2]) /\ StrLess(pqr[2], pqr[3])}

LineX     == <<"x">>
LineTodo  == <<"x",";","#","t","o","d","o">>
LineSemi  == <<"x",";">>
LineClass == <<" ","c","l","a","s","s"," "," ","a",":">>
LineLong  == [i \in 1..(MaxLineLength + 1) |-> "x"]
NL        == <<"\n">>

SrcEmpty == <<>>
SrcTodo  == LineTodo \o NL \o NL \o NL
SrcClass == LineClass
SrcLong  == LineLong \o NL
\* ten lines: a blank first line, code on lines 2 and 10, seven blank lines between
SrcTen   == NL \o LineSemi \o NL \o NL \o NL \o NL \o NL \o NL \o NL \o NL \o LineSemi \o NL

DriverSources == {SrcEmpty, SrcTodo, SrcClass, SrcLong, SrcTen}

\* The lines of the text that hold a token: ast gives a node the line of its
\* first token, counting lines as the text has them.
TokenLines(src) == LET ls == Split(src) IN {n \in 1..Len(ls) : Strip(ls[n]) # <<>>}

NameBad  == <<"X">>
NameGood == <<"y">>
NameFunc == <<"F">>
NameCls  == <<"a">>

\* class a: ... at line n
ClassTree(n) == <<ClassDef(0, n, NameCls)>>
\* def F(X, y=[], z={}): with a nested def g(): X = 1, all on line n
FuncTree(n) == <<FunctionDef(0, n, NameFunc, <<NameBad, NameGood, NameGood>>, <<"List", "Dict">>),
                 FunctionDef(1, n, <<"g">>, <<>>, <<>>),
                 Stmt("Assign", 2, n),
                 Name(3, n, NameBad, "Store")>>

SyntaxError == <<"SyntaxError">>
Parsed(t)   == <<"Module", t>>

\* ast.parse(source): a SyntaxError, or a tree whose nodes lie on token lines
Parse(src) == {SyntaxError, Parsed(<<>>)} \cup
              {Parsed(ClassTree(n)) : n \in TokenLines(src)} \cup
              {Parsed(FuncTree(n)) : n \in TokenLines(src)}

AllChecks == 1..Len(line_checks)
NoReport  == <<>>

\* __init__, up to the call of self.analyze()
Init ==
    /\ files \in FileLists
    /\ idx = 0
    /\ file = <<>>
    /\ lines = <<>>
    /\ tree = <<>>
    /\ pos = 0
    /\ line_num = 0
    /\ line = <<>>
    /\ chk = AllChecks
    /\ walked = FALSE
    /\ issues = <<>>
    /\ pc = "load"
    /\ out = NoReport

\* analyze: the loop takes the next file; load_file reads and parses it.
\* self.lines is assigned before ast.parse raises.
LoadFile ==
    /\ pc = "load"
    /\ idx < Len(files)
    /\ \E src \in DriverSources : \E parsed \in Parse(src) :
          /\ lines' = Split(RStrip(src))
          /\ IF parsed = SyntaxError
             THEN tree' = tree /\ pc' = "aborted"
             ELSE tree' = parsed[2] /\ pc' = "lines"
    /\ idx' = idx + 1
    /\ file' = files[idx + 1]
    /\ pos' = 0
    /\ chk' = AllChecks
    /\ walked' = FALSE
    /\ UNCHANGED <<files, line_num, line, issues, out>>

\* NextLine with enumerate(self.lines), which counts from 0
NextLineFromZero ==
    /\ pc = "lines"
    /\ chk = AllChecks
    /\ pos < Len(lines)
    /\ pos' = pos + 1
    /\ line_num' = pos
    /\ line' = lines[pos + 1]
    /\ chk' = {}
    /\ UNCHANGED <<files, idx, file, lines, tree, walked, issues, pc, out>>

\* analyze_lines: enumerate(self.lines, start=1) gives the next line
NextLine ==
    /\ pc = "lines"
    /\ chk = AllChecks
    /\ pos < Len(lines)
    /\ pos' = pos + 1
    /\ line_num' = pos + 1
    /\ line' = lines[pos + 1]
    /\ chk' = {}
    /\ UNCHANGED <<files, idx, file, lines, tree, walked, issues, pc, out>>

\* analyze_lines: the next check of self.line_checks, in the order declared
LineCheck ==
    /\ pc = "lines"
    /\ Cardinality(chk) < Len(line_checks)
    /\ LET k == Cardinality(chk) + 1
       IN /\ issues' = RunCheck(k, issues, file, lines, line_num, line)
          /\ chk' = chk \cup {k}
    /\ UNCHANGED <<files, idx, file, lines, tree, pos, line_num, line, walked, pc, out>>

\* analyze: analyze_lines has returned; analyze_tree runs; the loop goes on
TreeChecks ==
    /\ pc = "lines"
    /\ chk = AllChecks
    /\ pos = Len(lines)
    /\ ~walked
    /\ issues' = analyze_tree(issues, file, tree)
    /\ walked' = TRUE
    /\ pc' = "load"
    /\ UNCHANGED <<files, idx, file, lines, tree, pos, line_num, line, chk, out>>

\* PrintReport with the report printed after a failed parse too
PrintReportAlways ==
    /\ \/ pc = "load" /\ idx = Len(files)
       \/ pc = "aborted"
    /\ out' = <<__str__(issues)>>
    /\ pc' = "printed"
    /\ UNCHANGED <<files, idx, file, lines, tree, pos, line_num, line, chk, walked, issues>>

\* main: analyze has returned for every file; print(analyzer)
PrintReport ==
    /\ pc = "load"
    /\ idx = Len(files)
    /\ out' = <<__str__(issues)>>
    /\ pc' = "printed"
    /\ UNCHANGED <<files, idx, file, lines, tree, pos, line_num, line, chk, walked, issues>>

Next == LoadFile \/ NextLine \/ LineCheck \/ TreeChecks \/ PrintReport

Spec == Init /\ [][Next]_vars

----------------------------------------------------------------------------
(* Claims about a run over several files (Spec) *)

IsPrefix(a, b) == Len(a) <= Len(b) /\ SubSeq(b, 1, Len(a)) = a

\* The order the claim states: by file, then line_num as an integer, then code, then message
ClaimLess(a, b) ==
    \/ StrLess(a.file, b.file)
    \/ a.file = b.file /\ a.line_num < b.line_num
    \/ a.file = b.file /\ a.line_num = b.line_num /\ StrLess(a.code, b.code)
    \/ a.file = b.file /\ a.line_num = b.line_num /\ a.code = b.code /\ StrLess(a.message, b.message)

\* '<file>: Line <line_num>: <code> <message>'
ClaimLine(x) ==
    x.file \o <<":", " ", "L", "i", "n", "e", " ">> \o IntStr(x.line_num) \o <<":", " ">>
        \o x.code \o <<" ">> \o x.message

Below(x, iss) == Cardinality({i \in 1..Len(iss) : ClaimLess(iss[i], x)})
Same(x, iss)  == Cardinality({i \in 1..Len(iss) : iss[i] = x})

\* C1: the printed report is empty for an empty accumulator; otherwise it has
\* one line per accumulated issue, and an issue with b issues below it in the
\* order (file, line_num, code, message) and c copies of itself in the
\* accumulator fills the report's lines b+1 .. b+c, each formatted
\* '<file>: Line <line_num>: <code> <message>'.
C1_ReportSortedComplete ==
    pc = "printed" =>
        IF issues = <<>> THEN out[1] = <<>>
        ELSE LET rows == Split(out[1])
             IN /\ Len(rows) = Len(issues)
                /\ \A i \in 1..Len(issues) :
                      \A k \in (Below(issues[i], issues) + 1)..
                               (Below(issues[i], issues) + Same(issues[i], issues)) :
                          rows[k] = ClaimLine(issues[i])

\* A report with an issue of a.py at a higher line than an issue of b.py, two
\* identical issues, issues at lines 2 and 10 of one file, and an accumulator
\* that was not in order.
C1_Witness ==
    /\ pc = "printed"
    /\ \E i, j \in 1..Len(issues) :
          /\ issues[i].file = PathA /\ issues[j].file = PathB
          /\ issues[i].line_num > issues[j].line_num
    /\ \E i, j \in 1..Len(issues) : i # j /\ issues[i] = issues[j]
    /\ \E i, j \in 1..Len(issues) :
          /\ issues[i].file = issues[j].file
          /\ issues[i].line_num = 2 /\ issues[j].line_num = 10
    /\ \E i, j \in 1..Len(issues) : i < j /\ ClaimLess(issues[j], issues[i])

\* C7: a failed parse ends the run: the step that fails leaves the accumulator
\* as it was and prints nothing, and no step (no line check, no tree check, no
\* later file, no report) is ever taken after it.
C7_ParseErrorIsFatal ==
    [][/\ pc # "aborted"
       /\ pc' = "aborted" => (out' = NoReport /\ issues' = issues /\ idx' = idx + 1)]_vars

\* The second of three files failed to parse, after issues were accumulated.
C7_Witness ==
    /\ pc = "aborted"
    /\ Len(files) = 3
    /\ idx = 2
    /\ issues # <<>>
    /\ out = NoReport

\* C8: every issue names a file taken so far and a line_num >= 1; an issue of the
\* current file has line_num <= the number of its lines; and each issue, when
\* it is appended, names the current file and a line in 1 .. Len(lines).
C8_IssueInFile ==
    /\ [](\A i \in 1..Len(issues) :
            /\ \E k \in 1..idx : issues[i].file = files[k]
            /\ issues[i].line_num >= 1
            /\ issues[i].file = file => issues[i].line_num <= Len(lines))
    /\ [][\A i \in (Len(issues) + 1)..Len(issues') :
            /\ issues'[i].file = file'
            /\ file' = files[idx']
            /\ issues'[i].line_num \in 1..Len(lines')]_vars

\* The second file has been analyzed: a line check and a tree check have both
\* reported on its last line, and the first file has issues too.
C8_Witness ==
    /\ walked
    /\ idx = 2
    /\ \E i \in 1..Len(issues) : issues[i].file = files[1]
    /\ \E i, j \in 1..Len(issues) :
          /\ issues[i].file = file /\ issues[i].code = S003 /\ issues[i].line_num = Len(lines)
          /\ issues[j].file = file /\ issues[j].code = S011 /\ issues[j].line_num = Len(lines)
    /\ Len(lines) > 1

\* C9: every step keeps the accumulator as a prefix of the new accumulator and
\* keeps the list of files; a step that takes the next file changes neither the
\* accumulator nor the report nor the current line.
C9_AppendOnly ==
    [][/\ IsPrefix(issues, issues')
       /\ files' = files
       /\ idx' # idx => (issues' = issues /\ out' = out /\ line_num' = line_num /\ line' = line)]_vars

\* Issues of the first file are in the accumulator, the second file has taken
\* their place as the current file, and its issues follow them.
C9_Witness ==
    /\ idx = 2
    /\ pc = "lines"
    /\ lines # <<>>
    /\ \E i, j \in 1..Len(issues) :
          i < j /\ issues[i].file = files[1] /\ issues[j].file = files[2]

----------------------------------------------------------------------------
(* One file, for the claims about single checks.  The state is that of a    *)
(* run over the one path a.py once load_file has returned lines ls and      *)
(* tree t; AfterLines is the state once analyze_lines has returned as well. *)

AfterLoad(ls, t) ==
    /\ files = <<PathA>>
    /\ idx = 1
    /\ file = PathA
    /\ lines = ls
    /\ tree = t
    /\ pos = 0
    /\ line_num = 0
    /\ line = <<>>
    /\ chk = AllChecks
    /\ walked = FALSE
    /\ issues = <<>>
    /\ pc = "lines"
    /\ out = NoReport

AfterLines(ls, t) ==
    /\ files = <<PathA>>
    /\ idx = 1
    /\ file = PathA
    /\ lines = ls
    /\ tree = t
    /\ pos = Len(ls)
    /\ line_num = Len(ls)
    /\ line = ls[Len(ls)]
    /\ chk = AllChecks
    /\ walked = FALSE
    /\ issues = analyze_lines(<<>>, PathA, ls)
    /\ pc = "lines"
    /\ out = NoReport

\* The strings over the characters cs of length lo .. hi
Strings(cs, lo, hi) == UNION {[1..k -> cs] : k \in lo..hi}

Count(iss, code, n) ==
    Cardinality({i \in 1..Len(iss) : iss[i].code = code /\ iss[i].line_num = n})

NextFile == NextLine \/ LineCheck \/ TreeChecks

----------------------------------------------------------------------------
(* C2: class names (SpecCamel) *)

MaxNameLen == 3
NameChars == {"a", "B", "_", "1"}

\* Identifiers: letters, digits and underscores, not starting with a digit
Identifiers == {w \in Strings(NameChars, 1, MaxNameLen) : w[1] \notin Digit}

\* class <name>: on line 1
ClassLine(name) == KwClass \o <<" ">> \o name \o <<":">>

InitCamel == \E name \in Identifiers : AfterLines(<<ClassLine(name)>>, <<ClassDef(0, 1, name)>>)
NextCamel == TreeChecks
SpecCamel == InitCamel /\ [][NextCamel]_vars

HasUnderscore(w) == \E i \in 1..Len(w) : w[i] = "_"
HasUpper(w)      == \E i \in 1..Len(w) : w[i] \in Upper

\* C2 as claimed: is_not_camel is true exactly of the identifiers that hold an
\* underscore or no uppercase letter, and analyze_tree emits S008 for exactly
\* those class names.
C2_AsClaimed ==
    LET name == tree[1].name
        bad  == HasUnderscore(name) \/ ~HasUpper(name)
    IN /\ is_not_camel(name) <=> bad
       /\ walked => (Count(issues, S008, 1) = IF bad THEN 1 ELSE 0)

\* C2 as amended: is_not_camel is true exactly of the identifiers that hold an
\* underscore or do not start with an uppercase letter, and analyze_tree emits
\* one S008, on the class's line, for exactly those class names.
C2_FirstLetterOrUnderscore ==
    LET name == tree[1].name
        bad  == HasUnderscore(name) \/ name[1] \notin Upper
    IN /\ is_not_camel(name) <=> bad
       /\ walked => (Count(issues, S008, 1) = IF bad THEN 1 ELSE 0)

\* A class whose name has an uppercase letter and no underscore, but a
\* lowercase first letter, has been reported.
C2_Witness ==
    /\ walked
    /\ HasUpper(tree[1].name) /\ ~HasUnderscore(tree[1].name)
    /\ tree[1].name[1] \in Lower
    /\ Count(issues, S008, 1) = 1

----------------------------------------------------------------------------
(* C3: assignment targets in functions (SpecVars) *)

MaxNodes == 3

\* What a node of these trees is: a function f, an if block, or a Name:
\* X or y as an assignment target, or X read.
VarKinds == {"FunctionDef", "If", "StoreX", "StoreY", "LoadX"}
NameKinds == {"StoreX", "StoreY", "LoadX"}

\* Node i of kind k under parent p; a Name is on its own line i, or (same) on
\* the line of its parent; a function or a block is on its own line.
VarNode(i, p, k, same) ==
    CASE k = "FunctionDef" -> FunctionDef(p, i, <<"f">>, <<>>, <<>>)
      [] k = "If"          -> Stmt("If", p, i)
      [] k = "StoreX"      -> Name(p, IF same THEN p ELSE i, NameBad, "Store")
      [] k = "StoreY"      -> Name(p, IF same THEN p ELSE i, NameGood, "Store")
      [] k = "LoadX"       -> Name(p, IF same THEN p ELSE i, NameBad, "Load")

\* The trees of up to MaxNodes nodes: parents come first, a Name has no
\* children, and only a Name under a function or a block can share its line.
VarTrees ==
    UNION {{[i \in 1..n |-> VarNode(i, par[i], kind[i], same[i])] :
              <<par, kind, same>> \in
                  {pks \in [1..n -> 0..(n - 1)] \X [1..n -> VarKinds] \X [1..n -> BOOLEAN] :
                      \A i \in 1..n :
                          /\ pks[1][i] < i
                          /\ pks[1][i] # 0 => pks[2][pks[1][i]] \notin NameKinds
                          /\ pks[3][i] => (pks[2][i] \in NameKinds /\ pks[1][i] # 0)}} :
           n \in 1..MaxNodes}

InitVars == \E t \in VarTrees : AfterLines([i \in 1..Len(t) |-> LineX], t)
NextVars == TreeChecks
SpecVars == InitVars /\ [][NextVars]_vars

RECURSIVE Ancestors(_, _)
Ancestors(t, i) == IF t[i].parent = 0 THEN {} ELSE {t[i].parent} \cup Ancestors(t, t[i].parent)

\* The assignment targets inside a function body whose name is not snake_case
Offending(t) ==
    {i \in 1..Len(t) :
        /\ t[i].type = "Name" /\ t[i].ctx = "Store" /\ HasUpper(t[i].name)
        /\ \E a \in Ancestors(t, i) : t[a].type = "FunctionDef"}

\* C3 as claimed: after analyze_tree, the S011 issues are one per offending
\* assignment target inside a function body, each on its target's line and
\* naming it: for every line and name, as many S011 issues as such targets.
C3_OnePerOccurrence ==
    walked =>
        /\ Cardinality({k \in 1..Len(issues) : issues[k].code = S011}) = Cardinality(Offending(tree))
        /\ \A i \in Offending(tree) :
              Cardinality({k \in 1..Len(issues) :
                              /\ issues[k].code = S011
                              /\ issues[k].line_num = tree[i].lineno
                              /\ issues[k].message = MsgVariable(tree[i].name)})
              = Cardinality({j \in Offending(tree) :
                              tree[j].lineno = tree[i].lineno /\ tree[j].name = tree[i].name})

----------------------------------------------------------------------------
(* C4: inline comments (SpecInline) *)

MaxInlineLen == 4
InlineChars == {"x", " ", "#"}

\* A file of one line: the text has no newline, and load_file trims its end.
InitInline ==
    \E src \in Strings(InlineChars, 0, MaxInlineLen) : AfterLoad(Split(RStrip(src)), <<>>)
NextInline == NextFile
SpecInline == InitInline /\ [][NextInline]_vars

CheckIndex(name) == CHOOSE k \in AllChecks : line_checks[k] = name

\* The '#' that starts the comment of l, and the code before it
Hashes(l)     == {i \in 1..Len(l) : l[i] = "#"}
CodeBefore(l) == {p \in 1..Len(l) : p < Min(Hashes(l)) /\ l[p] \notin Space}

\* Code before the comment, and fewer than two characters between the two
TooClose(l) ==
    /\ Hashes(l) # {}
    /\ CodeBefore(l) # {}
    /\ Min(Hashes(l)) - Max(CodeBefore(l)) - 1 < 2

\* The first character of l that is not whitespace is '#'
FullLineComment(l) ==
    /\ Hashes(l) # {}
    /\ CodeBefore(l) = {}

\* C4 as claimed: once check_inline has run on line 1, there is an S004 issue
\* for it if and only if the line has code before the '#' that starts its
\* comment and fewer than two spaces between the two; a full-line comment
\* has none.
C4_InlineIffTooClose ==
    (pos = 1 /\ CheckIndex("check_inline") \in chk) =>
        /\ Count(issues, S004, 1) = (IF TooClose(line) THEN 1 ELSE 0)
        /\ FullLineComment(line) => Count(issues, S004, 1) = 0

----------------------------------------------------------------------------
(* C5: blank lines (SpecBlank) *)

MaxLines == 5
BlankLineKinds == {<<>>, <<" ">>, <<"x">>}

\* The files of up to MaxLines lines, each empty, one space or code
InitBlank ==
    \E n \in 1..MaxLines : \E ls \in [1..n -> BlankLineKinds] :
        AfterLoad(Split(RStrip(Join(NL, ls))), <<>>)
NextBlank == NextFile
SpecBlank == InitBlank /\ [][NextBlank]_vars

IsBlank(l) == \A i \in 1..Len(l) : l[i] \in Space

\* Line n has content and the three lines before it exist and are blank
AfterThreeBlank(ls, n) ==
    /\ n >= 4
    /\ ~IsBlank(ls[n])
    /\ IsBlank(ls[n - 1]) /\ IsBlank(ls[n - 2]) /\ IsBlank(ls[n - 3])

\* check_blank_lines has run on line n
BlankChecked(n) == n < pos \/ (n = pos /\ CheckIndex("check_blank_lines") \in chk)

\* C5: for every line n that check_blank_lines has run on there is one S006
\* issue if n >= 4, line n is not blank and lines n-1, n-2, n-3 are blank, and
\* none otherwise; there is none for a line it has not run on, and none for a
\* blank line.
C5_BlankLines ==
    \A n \in 1..Len(lines) :
        /\ BlankChecked(n) => Count(issues, S006, n) = (IF AfterThreeBlank(lines, n) THEN 1 ELSE 0)
        /\ ~BlankChecked(n) => Count(issues, S006, n) = 0
        /\ IsBlank(lines[n]) => Count(issues, S006, n) = 0

\* Four blank lines, then a line of content: one S006, on that line, and the
\* whole file has been checked.
C5_Witness ==
    /\ walked
    /\ \E n \in 5..Len(lines) :
          /\ AfterThreeBlank(lines, n) /\ IsBlank(lines[n - 4])
          /\ Count(issues, S006, n) = 1
          /\ Cardinality({i \in 1..Len(issues) : issues[i].code = S006}) = 1

----------------------------------------------------------------------------
(* C6: mutable defaults (SpecDefaults) *)

MaxDefaults == 2

\* The classes of the default expressions: ast.List, ast.Set, ast.Dict, ast.Constant
DefaultKinds == {"List", "Set", "Dict", "Constant"}
DefaultLists == UNION {[1..k -> DefaultKinds] : k \in 0..MaxDefaults}

\* def f(y=.., y=..): on line n under parent p, one argument per default
DefFunction(p, n, ds) == FunctionDef(p, n, <<"f">>, [i \in 1..Len(ds) |-> NameGood], ds)

\* One function, or two: the second beside the first or nested in it
DefaultTrees ==
    {<<DefFunction(0, 1, ds)>> : ds \in DefaultLists} \cup
    {<<DefFunction(0, 1, ds[1]), DefFunction(p, 2, ds[2])>> :
        ds \in DefaultLists \X DefaultLists, p \in {0, 1}}

InitDefaults == \E t \in DefaultTrees : AfterLines([i \in 1..Len(t) |-> LineX], t)
NextDefaults == TreeChecks
SpecDefaults == InitDefaults /\ [][NextDefaults]_vars

IsMutable(kind) == kind \in {"List", "Set", "Dict"}
HasMutable(ds)  == \E i \in 1..Len(ds) : IsMutable(ds[i])

\* C6: after analyze_tree, every function has one S012 issue on its
\* declaration line if one of its defaults is a list, set or dict, and none
\* otherwise, however many of them are.
C6_OneMutableIssue ==
    walked =>
        /\ \A n \in 1..Len(tree) :
              tree[n].type = "FunctionDef" =>
                  Count(issues, S012, tree[n].lineno) = (IF HasMutable(tree[n].defaults) THEN 1 ELSE 0)
        /\ \A k \in 1..Len(issues) : issues[k].code = S012 => issues[k].message = MsgMutable

\* A function with two mutable defaults has got its one issue.
C6_Witness ==
    /\ walked
    /\ \E n \in 1..Len(tree) :
          /\ Cardinality({i \in 1..Len(tree[n].defaults) : IsMutable(tree[n].defaults[i])}) >= 2
          /\ Count(issues, S012, tree[n].lineno) = 1

----------------------------------------------------------------------------
(* C10: the order of the checks (SpecPerm).  The line checks of a line run  *)
(* in any order, and analyze_tree runs at any point between them.          *)

MaxPermLines == 2
PermLineKinds == {LineTodo, LineClass}
PermTrees == {<<>>, FuncTree(1)}

InitPerm ==
    \E n \in 1..MaxPermLines : \E ls \in [1..n -> PermLineKinds] : \E t \in PermTrees :
        AfterLoad(ls, t)

\* A check of self.line_checks not yet run on the current line
AnyLineCheck ==
    /\ pc = "lines"
    /\ \E k \in AllChecks \ chk :
          /\ issues' = RunCheck(k, issues, file, lines, line_num, line)
          /\ chk' = chk \cup {k}
    /\ UNCHANGED <<files, idx, file, lines, tree, pos, line_num, line, walked, pc, out>>

\* analyze_tree, before, between or after the line checks
AnyTreeChecks ==
    /\ pc = "lines"
    /\ ~walked
    /\ issues' = analyze_tree(issues, file, tree)
    /\ walked' = TRUE
    /\ UNCHANGED <<files, idx, file, lines, tree, pos, line_num, line, chk, pc, out>>

NextPerm == NextLine \/ AnyLineCheck \/ AnyTreeChecks
SpecPerm == InitPerm /\ [][NextPerm]_vars

\* analyze, for one file: analyze_lines, then analyze_tree
analyze_file(iss, f, ls, t) == analyze_tree(analyze_lines(iss, f, ls), f, t)

BagOf(seq) == [x \in {seq[i] : i \in 1..Len(seq)} |-> Cardinality({i \in 1..Len(seq) : seq[i] = x})]

PermDone == pos = Len(lines) /\ chk = AllChecks /\ walked

\* C10: when every check has run on every line and the tree checks have run,
\* in whatever order, the accumulator holds the issues of the run in the
\* declared order, each as many times, and renders the same report.
C10_OrderIrrelevant ==
    PermDone =>
        LET declared == analyze_file(<<>>, file, lines, tree)
        IN /\ BagOf(issues) = BagOf(declared)
           /\ __str__(issues) = __str__(declared)

\* A finished run whose accumulator is not in the order of the declared run,
\* with several line issues on one line and tree issues.
C10_Witness ==
    /\ PermDone
    /\ issues # analyze_file(<<>>, file, lines, tree)
    /\ \E i, j \in 1..Len(issues) :
          /\ issues[i].code = S003 /\ issues[j].code = S005
          /\ issues[i].line_num = issues[j].line_num
          /\ j < i
    /\ \E i, j \in 1..Len(issues) : issues[i].code = S011 /\ issues[j].code = S004 /\ i < j

============================================================================
